---- MODULE Spec2Model ----
(***************************************************************************)
(* A model of the DevSkim analysis engine (server/src/devskimWorker.ts and *)
(* server/src/utility_classes/sourceContext.ts).                           *)
(*                                                                         *)
(* Strings are sequences of one-character strings.  Offsets, lines and     *)
(* columns are 0-based as in the TypeScript source; the sequence index of  *)
(* offset i is i + 1.                                                      *)
(***************************************************************************)
EXTENDS Integers, Sequences, FiniteSets, TLC

-----------------------------------------------------------------------------
(* Bounds of the model *)

\* longest analysed document, in characters
MaxDocLen == 4

\* most rules of a rule set
MaxRules == 3

\* most fix templates of a rule
MaxFixes == 2

\* most analyzeText calls of one worker that the model follows
MaxCalls == 2

\* most fixes recorded in codeActions
MaxRecords == 3

\* loadRules calls in flight at one time
MaxLoads == 2

\* most iterations of one pattern scan that the model follows; a scan that
\* advances makes no more than one for every character of the document
MaxIter == MaxDocLen + 3

-----------------------------------------------------------------------------
(* Characters *)

NL == "\n"
CR == "\r"

\* the characters \w of a regular expression, among those the model uses
WordChars == {"a", "b", "c", "D", "P", "Q", "1", "2"}

-----------------------------------------------------------------------------
(* JavaScript string primitives *)

Min(a, b) == IF a <= b THEN a ELSE b

Max(a, b) == IF a >= b THEN a ELSE b

SetMin(S) == CHOOSE x \in S : \A y \in S : x <= y

SetMax(S) == CHOOSE x \in S : \A y \in S : x >= y

\* s.substr(start, length), start >= 0
Substr(s, start, length) ==
    IF start >= Len(s) \/ length <= 0 THEN <<>>
    ELSE SubSeq(s, start + 1, Min(Len(s), start + length))

\* s.substr(start), start >= 0
SubstrFrom(s, start) ==
    IF start >= Len(s) THEN <<>> ELSE SubSeq(s, start + 1, Len(s))

\* t occurs in s at offset i
StartsAt(s, t, i) ==
    /\ i >= 0
    /\ i + Len(t) <= Len(s)
    /\ \A k \in 1..Len(t) : s[i + k] = t[k]

\* s.indexOf(t)
IndexOf(s, t) ==
    LET hits == {i \in 0..Len(s) : StartsAt(s, t, i)}
    IN  IF hits = {} THEN -1 ELSE SetMin(hits)

\* s.lastIndexOf(t)
LastIndexOf(s, t) ==
    LET hits == {i \in 0..Len(s) : StartsAt(s, t, i)}
    IN  IF hits = {} THEN -1 ELSE SetMax(hits)

-----------------------------------------------------------------------------
(* Regular expressions: MakeRegex and XRegExp.exec *)

\* the flag string MakeRegex builds from the modifiers
RECURSIVE RegexModifier(_, _)
RegexModifier(modifiers, forXregExp) ==
    IF modifiers = <<>> THEN <<>>
    ELSE LET mod == Head(modifiers)
             rest == RegexModifier(Tail(modifiers), forXregExp)
         IN  IF mod = "d"
             THEN (IF forXregExp THEN <<"s">> \o rest ELSE rest)
             ELSE <<mod>> \o rest

\* XRegExp(source, flags) throws on a flag it does not know or sees twice
FlagsOk(flags) ==
    /\ \A k \in 1..Len(flags) : flags[k] \in {"g", "i", "m", "s", "n", "x", "y", "u", "A"}
    /\ \A j, k \in 1..Len(flags) : flags[j] = flags[k] => j = k

\* XRegExp(source, flags) throws on a source that is no regular expression.
\* The patterns of the model are made of literal characters and of "(",
\* which opens a group that nothing closes.
SourceOk(regexType, pattern) ==
    \/ regexType \in {"string", "substring"}
    \/ \A k \in 1..Len(pattern) : pattern[k] # "("

\* MakeRegex: ok is FALSE when the XRegExp constructor throws; otherwise the
\* expression matches the literal lit, between word boundaries when word.
MakeRegex(regexType, pattern, modifiers, forXregExp) ==
    LET flags == RegexModifier(modifiers, forXregExp)
    IN  [ok    |-> SourceOk(regexType, pattern) /\ FlagsOk(flags),
         lit   |-> pattern,
         word  |-> regexType \in {"regex-word", "string"},
         flags |-> flags]

IsWordChar(c) == c \in WordChars

\* \b at offset i of s
Boundary(s, i) ==
    LET before == i > 0 /\ i <= Len(s) /\ IsWordChar(s[i])
        after  == i >= 0 /\ i < Len(s) /\ IsWordChar(s[i + 1])
    IN  before # after

MatchAt(s, re, i) ==
    /\ StartsAt(s, re.lit, i)
    /\ re.word => Boundary(s, i) /\ Boundary(s, i + Len(re.lit))

NoMatch == [index |-> -1, length |-> 0]

\* XRegExp.exec(s, re, pos): the first match at or after pos, or null
Exec(s, re, pos) ==
    LET hits == {i \in 0..Len(s) : i >= pos /\ MatchAt(s, re, i)}
    IN  IF hits = {} THEN NoMatch
        ELSE [index |-> SetMin(hits), length |-> Len(re.lit)]

\* s.replace(re, replacement) with a regular expression without the g flag
Replace(s, re, replacement) ==
    LET m == Exec(s, re, 0)
    IN  IF m = NoMatch THEN s
        ELSE SubSeq(s, 1, m.index) \o replacement \o SubstrFrom(s, m.index + m.length)

-----------------------------------------------------------------------------
(* Lines *)

\* the number of matches of /(\r\n|\n|\r)/g in s from offset i on
RECURSIVE CountBreaks(_, _)
CountBreaks(s, i) ==
    IF i >= Len(s) THEN 0
    ELSE IF s[i + 1] = CR /\ i + 1 < Len(s) /\ s[i + 2] = NL
         THEN 1 + CountBreaks(s, i + 2)
    ELSE IF s[i + 1] \in {CR, NL} THEN 1 + CountBreaks(s, i + 1)
    ELSE CountBreaks(s, i + 1)

GetLineNumber(documentContents, currentPosition) ==
    CountBreaks(Substr(documentContents, 0, currentPosition), 0)

\* the loop of GetDocumentPosition: scanning from offset i with `line` lines
\* counted, the offset at which line number lineNumber (1-based) starts
RECURSIVE DocumentPositionLoop(_, _, _, _)
DocumentPositionLoop(s, i, line, lineNumber) ==
    IF i >= Len(s) THEN Len(s)
    ELSE LET width == IF s[i + 1] = CR /\ i + 1 < Len(s) /\ s[i + 2] = NL THEN 2
                      ELSE IF s[i + 1] \in {CR, NL} THEN 1
                      ELSE 0
         IN  IF width = 0 THEN DocumentPositionLoop(s, i + 1, line, lineNumber)
             ELSE IF line + 1 = lineNumber THEN i + width
             ELSE DocumentPositionLoop(s, i + width, line + 1, lineNumber)

GetDocumentPosition(documentContents, lineNumber) ==
    IF lineNumber < 1 THEN 0
    ELSE DocumentPositionLoop(documentContents, 0, 1, lineNumber + 1)

-----------------------------------------------------------------------------
(* The comment oracle: sourceContext.ts *)

CFamily == {"c", "cpp", "csharp", "groovy", "php", "javascript",
            "javascriptreact", "typescript", "typescriptreact", "java",
            "objective-c", "swift", "go", "rust"}

GetLineComment(langID) ==
    IF langID = "vb" THEN <<"'">>
    ELSE IF langID \in {"lua", "sql", "tsql"} THEN <<"-", "-">>
    ELSE IF langID = "clojure" THEN <<";", ";">>
    ELSE IF langID \in {"yaml", "shellscript", "ruby", "powershell",
                        "coffeescript", "python", "r", "perl6", "perl"}
         THEN <<"#">>
    ELSE IF langID = "jade" THEN <<"/", "/", "-">>
    ELSE IF langID \in CFamily \cup {"fsharp"} THEN <<"/", "/">>
    ELSE <<>>

GetBlockCommentStart(langID) ==
    IF langID \in CFamily THEN <<"/", "*">>
    ELSE IF langID = "fsharp" THEN <<"(", "*">>
    ELSE IF langID \in {"html", "xml"} THEN <<"<", "!", "-", "-">>
    ELSE <<>>

GetBlockCommentEnd(langID) ==
    IF langID \in CFamily THEN <<"*", "/">>
    ELSE IF langID = "fsharp" THEN <<"*", ")">>
    ELSE IF langID \in {"html", "xml"} THEN <<"-", "-", ">">>
    ELSE <<>>

\* IsFindingInComment looking for the line comment in the whole text
IsFindingInCommentAnywhere(langID, documentContents, newlineIndex, onlyBlock) ==
    IF Len(documentContents) < 1 THEN FALSE
    ELSE LET lineComment == GetLineComment(langID)
             startComment == GetBlockCommentStart(langID)
             endComment == GetBlockCommentEnd(langID)
         IN  IF ~onlyBlock /\ Len(lineComment) > 0
                /\ IndexOf(documentContents, lineComment) > -1
             THEN TRUE
             ELSE /\ Len(startComment) > 0
                  /\ Len(endComment) > 0
                  /\ LastIndexOf(documentContents, startComment)
                       > LastIndexOf(documentContents, endComment)

IsFindingInComment(langID, documentContents, newlineIndex, onlyBlock) ==
    IF Len(documentContents) < 1 THEN FALSE
    ELSE LET lineComment == GetLineComment(langID)
             commentText == IF newlineIndex > -1
                            THEN SubstrFrom(documentContents, newlineIndex)
                            ELSE documentContents
             startComment == GetBlockCommentStart(langID)
             endComment == GetBlockCommentEnd(langID)
         IN  IF ~onlyBlock /\ Len(lineComment) > 0
                /\ IndexOf(commentText, lineComment) > -1
             THEN TRUE
             ELSE /\ Len(startComment) > 0
                  /\ Len(endComment) > 0
                  /\ LastIndexOf(documentContents, startComment)
                       > LastIndexOf(documentContents, endComment)

\* MatchIsInScope with the two tests on findingInComment exchanged
MatchIsInScopeExchanged(langID, docContentsToFinding, newlineIndex, scopes) ==
    IF \E k \in 1..Len(scopes) : scopes[k] = "all" THEN TRUE
    ELSE LET findingInComment ==
                 IsFindingInComment(langID, docContentsToFinding, newlineIndex, FALSE)
         IN  \E k \in 1..Len(scopes) :
                 \/ scopes[k] = "code" /\ findingInComment
                 \/ scopes[k] = "comment" /\ ~findingInComment

MatchIsInScope(langID, docContentsToFinding, newlineIndex, scopes) ==
    IF \E k \in 1..Len(scopes) : scopes[k] = "all" THEN TRUE
    ELSE LET findingInComment ==
                 IsFindingInComment(langID, docContentsToFinding, newlineIndex, FALSE)
         IN  \E k \in 1..Len(scopes) :
                 \/ scopes[k] = "code" /\ ~findingInComment
                 \/ scopes[k] = "comment" /\ findingInComment

-----------------------------------------------------------------------------
(* Rules, settings and problems: the shapes devskimWorker.ts reads *)

\* Range.create(startLine, startCharacter, endLine, endCharacter)
RangeCreate(startLine, startCharacter, endLine, endCharacter) ==
    [start |-> [line |-> startLine, character |-> startCharacter],
     end   |-> [line |-> endLine, character |-> endCharacter]]

\* the value of suppressedFindingRange on a problem that has none
NoRange == RangeCreate(-1, -1, -1, -1)

\* a pattern of a rule, of a condition or of a fix
Pattern(type, pattern, modifiers, scopes) ==
    [type |-> type, pattern |-> pattern, modifiers |-> modifiers, scopes |-> scopes]

\* search_in: undefined, or a string.  text is "finding-only", "" or
\* "finding-region", the latter standing for "finding-region(a,b)"
SearchIn(defined, text, a, b) ==
    [defined |-> defined, text |-> text, a |-> a, b |-> b]

SearchInUndefined == SearchIn(FALSE, "", 0, 0)

\* negateFinding is "undefined", "true" or "false"
Condition(pattern, search_in, negateFinding) ==
    [pattern |-> pattern, search_in |-> search_in, negateFinding |-> negateFinding]

FixIt(name, pattern, replacement) ==
    [name |-> name, pattern |-> pattern, replacement |-> replacement]

\* rule.conditions is undefined when conditionsDefined is FALSE
Rule(id, severity, appliesTo, overrides, patterns, conditionsDefined, conditions, fixIts) ==
    [id |-> id, severity |-> severity, appliesTo |-> appliesTo,
     overrides |-> overrides, patterns |-> patterns,
     conditionsDefined |-> conditionsDefined, conditions |-> conditions,
     fixIts |-> fixIts]

-----------------------------------------------------------------------------
(* Severity and applicability *)

\* String.prototype.toLowerCase on one character
UpperCase == <<"A", "B", "C", "D", "E", "F", "G", "H", "I", "J", "K", "L", "M",
               "N", "O", "P", "Q", "R", "S", "T", "U", "V", "W", "X", "Y", "Z">>

LowerCase == <<"a", "b", "c", "d", "e", "f", "g", "h", "i", "j", "k", "l", "m",
               "n", "o", "p", "q", "r", "s", "t", "u", "v", "w", "x", "y", "z">>

LowerChar(c) ==
    IF \E k \in 1..Len(UpperCase) : UpperCase[k] = c
    THEN LowerCase[CHOOSE k \in 1..Len(UpperCase) : UpperCase[k] = c]
    ELSE c

ToLowerCase(s) == [k \in 1..Len(s) |-> LowerChar(s[k])]

\* the severity names, lower case
SeverityName(severity) ==
    CASE severity \in {"critical", "Critical", "CRITICAL"} -> "critical"
      [] severity \in {"important", "Important"} -> "important"
      [] severity \in {"moderate", "Moderate"} -> "moderate"
      [] severity \in {"best-practice", "Best-Practice"} -> "best-practice"
      [] severity \in {"manual-review", "Manual-Review"} -> "manual-review"
      [] OTHER -> severity

MapRuleSeverity(severity) ==
    LET lower == SeverityName(severity)
    IN  CASE lower = "critical" -> "Critical"
          [] lower = "important" -> "Important"
          [] lower = "moderate" -> "Moderate"
          [] lower = "best-practice" -> "BestPractice"
          [] lower = "manual-review" -> "ManualReview"
          [] OTHER -> "BestPractice"

\* RuleSeverityEnabled with every severity enabled
RuleSeverityEnabledAlways(ruleSeverity, settings) == TRUE

RuleSeverityEnabled(ruleSeverity, settings) ==
    \/ ruleSeverity = "Critical"
    \/ ruleSeverity = "Important"
    \/ ruleSeverity = "Moderate"
    \/ ruleSeverity = "BestPractice" /\ settings.enableBestPracticeRules
    \/ ruleSeverity = "ManualReview" /\ settings.enableManualReviewRules

\* the characters of a language id
LangChars(languageID) ==
    CASE languageID = "c" -> <<"c">>
      [] languageID = "vb" -> <<"v", "b">>
      [] languageID = "plaintext" -> <<"p", "l", "a", "i", "n", "t", "e", "x", "t">>
      [] OTHER -> <<"t", "x", "t">>

\* AppliesToLangOrFile answering true for every rule
AppliesToAnything(languageID, appliesTo, documentURI) == TRUE

AppliesToLangOrFile(languageID, appliesTo, documentURI) ==
    IF Len(appliesTo) > 0
    THEN \E k \in 1..Len(appliesTo) :
            \/ ToLowerCase(LangChars(languageID)) = ToLowerCase(appliesTo[k])
            \/ /\ IndexOf(appliesTo[k], <<".">>) # -1
               /\ IndexOf(ToLowerCase(documentURI), ToLowerCase(appliesTo[k])) # -1
    ELSE TRUE

\* PathOperations.ignoreFile: the URI matches an entry of the ignore list
IgnoreFile(documentURI, ignoreFilesList) ==
    \E k \in 1..Len(ignoreFilesList) : IndexOf(documentURI, ignoreFilesList[k]) # -1

-----------------------------------------------------------------------------
(* The condition evaluator: MatchesConditions *)

\* number + string in JavaScript is the concatenation of the decimal texts;
\* read back as a number (y in 0..99)
ConcatDigits(x, y) == x * (IF y < 10 THEN 10 ELSE 100) + y

\* GetDocumentPosition(documentContents, line + regionMatch[n]), and with
\* plusOne, GetDocumentPosition(documentContents, line + regionMatch[n] + 1).
\* The text of a negative delta makes the sum NaN: NaN < 1 is false and no
\* line count equals NaN, so the loop runs to the end of the document.
RegionPosition(documentContents, line, delta, plusOne) ==
    IF delta < 0 THEN Len(documentContents)
    ELSE LET joined == ConcatDigits(line, delta)
         IN  GetDocumentPosition(documentContents,
                 IF plusOne THEN ConcatDigits(joined, 1) ELSE joined)

\* startPos and endPos of a condition
SearchRegion(documentContents, findingRange, search_in) ==
    IF ~search_in.defined \/ search_in.text # ""
    THEN [startPos |-> GetDocumentPosition(documentContents, findingRange.start.line),
          endPos   |-> GetDocumentPosition(documentContents, findingRange.end.line + 1)]
    ELSE IF search_in.text = "finding-only"
    THEN [startPos |-> GetDocumentPosition(documentContents, findingRange.start.line)
                         + findingRange.start.character,
          endPos   |-> GetDocumentPosition(documentContents, findingRange.end.line)
                         + findingRange.end.character]
    ELSE IF search_in.text = "finding-region"
    THEN [startPos |-> RegionPosition(documentContents, findingRange.start.line,
                                      search_in.a, FALSE),
          endPos   |-> RegionPosition(documentContents, findingRange.end.line,
                                      search_in.b, TRUE)]
    ELSE [startPos |-> findingRange.start.line, endPos |-> findingRange.end.line]

\* newlineIndex of a match at offset index
NewlineIndex(documentContents, index) ==
    IF GetLineNumber(documentContents, index) = 0 THEN -1
    ELSE LastIndexOf(Substr(documentContents, 0, index), <<NL>>)

\* ConditionScan deciding on the first match of the region, in scope or not
ConditionScanFirstMatch(documentContents, langID, condition, conditionRegex, startPos, endPos, fuel) ==
    LET match == Exec(documentContents, conditionRegex, startPos)
        negate == condition.negateFinding = "true"
    IN  IF match = NoMatch THEN (IF negate THEN "pass" ELSE "fail")
        ELSE IF match.index > endPos THEN (IF negate THEN "pass" ELSE "fail")
        ELSE IF MatchIsInScope(langID, Substr(documentContents, 0, match.index),
                               NewlineIndex(documentContents, match.index),
                               condition.pattern.scopes)
             THEN (IF negate THEN "fail" ELSE "pass")
        ELSE (IF negate THEN "pass" ELSE "fail")

\* The while loop of one condition: "pass", "fail", or "hang" when the loop
\* is still running after `fuel` further iterations.  Every iteration that
\* continues leaves the cursor at match.index + match[0].length, so a loop that
\* advances ends within Len(documentContents) + 1 iterations.
RECURSIVE ConditionScan(_, _, _, _, _, _, _)
ConditionScan(documentContents, langID, condition, conditionRegex, startPos, endPos, fuel) ==
    LET match == Exec(documentContents, conditionRegex, startPos)
        negate == condition.negateFinding = "true"
    IN  IF match = NoMatch THEN (IF negate THEN "pass" ELSE "fail")
        ELSE IF match.index > endPos THEN (IF negate THEN "pass" ELSE "fail")
        ELSE IF MatchIsInScope(langID, Substr(documentContents, 0, match.index),
                               NewlineIndex(documentContents, match.index),
                               condition.pattern.scopes)
             THEN (IF negate THEN "fail" ELSE "pass")
        ELSE IF fuel = 0 THEN "hang"
        ELSE ConditionScan(documentContents, langID, condition, conditionRegex,
                           match.index + match.length, endPos, fuel - 1)

\* one condition: "pass", "fail", "hang", or "throw" from MakeRegex
EvalCondition(condition, documentContents, findingRange, langID) ==
    LET modifiers == IF Len(condition.pattern.modifiers) > 0
                     THEN condition.pattern.modifiers \o <<"g">>
                     ELSE <<"g">>
        conditionRegex == MakeRegex(condition.pattern.type, condition.pattern.pattern,
                                    modifiers, TRUE)
        region == SearchRegion(documentContents, findingRange, condition.search_in)
    IN  IF ~conditionRegex.ok THEN "throw"
        ELSE ConditionScan(documentContents, langID, condition, conditionRegex,
                           region.startPos, region.endPos, Len(documentContents) + 1)

\* MatchesConditions from condition number k on.  outcome is "true", "false",
\* "throw" or "hang"; visited is the number of conditions the loop entered,
\* each of which has had an undefined negateFinding set to false.
RECURSIVE MatchesConditionsFrom(_, _, _, _, _)
MatchesConditionsFrom(conditions, k, documentContents, findingRange, langID) ==
    IF k > Len(conditions) THEN [outcome |-> "true", visited |-> k - 1]
    ELSE LET r == EvalCondition(conditions[k], documentContents, findingRange, langID)
         IN  IF r = "pass"
             THEN MatchesConditionsFrom(conditions, k + 1, documentContents,
                                        findingRange, langID)
             ELSE [outcome |-> IF r = "fail" THEN "false" ELSE r, visited |-> k]

MatchesConditions(conditions, documentContents, findingRange, langID) ==
    MatchesConditionsFrom(conditions, 1, documentContents, findingRange, langID)

\* SetNegateFinding leaving true where the code leaves false
SetNegateFindingTrue(conditions, visited) ==
    [k \in 1..Len(conditions) |->
        IF k <= visited /\ conditions[k].negateFinding = "undefined"
        THEN [conditions[k] EXCEPT !.negateFinding = "true"]
        ELSE conditions[k]]

\* the conditions after MatchesConditions entered the first `visited` of them
SetNegateFinding(conditions, visited) ==
    [k \in 1..Len(conditions) |->
        IF k <= visited /\ conditions[k].negateFinding = "undefined"
        THEN [conditions[k] EXCEPT !.negateFinding = "false"]
        ELSE conditions[k]]

-----------------------------------------------------------------------------
(* Problems and fixes: MakeProblem, MakeFixes *)

\* MakeProblem giving every problem the severity of its rule
MakeProblemOfRuleSeverity(rule, warningLevel, problemRange, suppressedFindingRange, origin) ==
    [ruleId   |-> rule.id,
     severity |-> MapRuleSeverity(rule.severity),
     range    |-> problemRange,
     suppressedFindingRange |-> suppressedFindingRange,
     overrides |-> IF Len(rule.overrides) > 0 THEN rule.overrides ELSE <<>>,
     fixes    |-> <<>>,
     origin   |-> origin]

\* new DevSkimProblem(...) as MakeProblem fills it.  fixes and overrides
\* start empty.  origin records the match the problem was made for (rule
\* number, pattern number, match offset and length); the program keeps no
\* such field.
MakeProblem(rule, warningLevel, problemRange, suppressedFindingRange, origin) ==
    [ruleId   |-> rule.id,
     severity |-> warningLevel,
     range    |-> problemRange,
     suppressedFindingRange |-> suppressedFindingRange,
     overrides |-> IF Len(rule.overrides) > 0 THEN rule.overrides ELSE <<>>,
     fixes    |-> <<>>,
     origin   |-> origin]

\* the fix MakeFixes makes of one fix template
MakeFix(fixIt, replacePattern, replacementSource, range) ==
    [text    |-> Replace(replacementSource, replacePattern, fixIt.replacement),
     fixName |-> <<"DevSkim: ", fixIt.name>>,
     range   |-> range]

\* The loop of MakeFixes at fixIndex (1-based), `fixes` pushed so far.
\* threw is TRUE when MakeRegex, which is called outside the try block,
\* throws.
RECURSIVE MakeFixesLoop(_, _, _, _, _)
MakeFixesLoop(rule, replacementSource, range, fixIndex, fixes) ==
    IF fixIndex < 1 THEN [threw |-> FALSE, fixes |-> fixes]
    ELSE LET fixIt == rule.fixIts[fixIndex]
             replacePattern == MakeRegex(fixIt.pattern.type, fixIt.pattern.pattern,
                                         fixIt.pattern.modifiers, FALSE)
         IN  IF ~replacePattern.ok THEN [threw |-> TRUE, fixes |-> fixes]
             ELSE MakeFixesLoop(rule, replacementSource, range, fixIndex - 1,
                      Append(fixes, MakeFix(fixIt, replacePattern, replacementSource, range)))

MakeFixes(rule, replacementSource, range) ==
    MakeFixesLoop(rule, replacementSource, range, Len(rule.fixIts), <<>>)

-----------------------------------------------------------------------------
(* The override resolver: processOverrides *)

\* problems.splice(x, 1), x 0-based
Splice(problems, x) ==
    SubSeq(problems, 1, x) \o SubSeq(problems, x + 2, Len(problems))

\* ruleId.match(regexString) finds a match, regexString being the overrides
\* joined by "|": one of the overridden ids occurs in ruleId
OverrideRegexMatches(ruleId, overrides) ==
    \E k \in 1..Len(overrides) : IndexOf(ruleId, overrides[k]) # -1

\* The inner loop of processOverrides from index x on.  problem is the
\* element the outer loop holds and cur its index in problems, -1 once it has
\* been spliced out.
RECURSIVE OverridesInner(_, _, _, _, _)
OverridesInner(problems, x, problem, cur, removed) ==
    IF x >= Len(problems)
    THEN [problems |-> problems, cur |-> cur, removed |-> removed]
    ELSE LET range == IF problem.suppressedFindingRange # NoRange
                      THEN problem.suppressedFindingRange
                      ELSE problem.range
         IN  IF /\ OverrideRegexMatches(problems[x + 1].ruleId, problem.overrides)
                /\ problems[x + 1].range.start.line = range.start.line
                /\ problems[x + 1].range.start.character = range.start.character
             THEN OverridesInner(Splice(problems, x), x + 1, problem,
                                 IF x < cur THEN cur - 1
                                 ELSE IF x = cur THEN -1 ELSE cur,
                                 TRUE)
             ELSE OverridesInner(problems, x + 1, problem, cur, removed)

\* The outer loop, for (let problem of problems), at iterator index i
RECURSIVE OverridesOuter(_, _, _)
OverridesOuter(problems, i, overrideRemoved) ==
    IF i >= Len(problems)
    THEN [problems |-> problems, overrideRemoved |-> overrideRemoved]
    ELSE LET problem == problems[i + 1]
         IN  IF Len(problem.overrides) > 0
             THEN LET r == OverridesInner(problems, 0, problem, i, FALSE)
                      cleared == IF r.cur = -1 THEN r.problems
                                 ELSE [r.problems EXCEPT ![r.cur + 1].overrides = <<>>]
                  IN  OverridesOuter(cleared, i + 1, overrideRemoved \/ r.removed)
             ELSE OverridesOuter(problems, i + 1, overrideRemoved)

\* processOverrides without the call of itself that follows a removal
ProcessOverridesOnce(problems) == OverridesOuter(problems, 0, FALSE).problems

RECURSIVE ProcessOverrides(_)
ProcessOverrides(problems) ==
    LET r == OverridesOuter(problems, 0, FALSE)
    IN  IF r.overrideRemoved THEN ProcessOverrides(r.problems) ELSE r.problems

-----------------------------------------------------------------------------
(* Collaborators outside the two source files *)

\* DevSkimSuppression.isFindingCommented.  A directive comment is given by
\* the line it covers, the rule ids it names (none: every rule), whether it
\* is a "reviewed" directive, and the column of the rule id it reports.
IsFindingCommented(directive, startPosition, documentContents, ruleID, ruleSeverity) ==
    IF /\ directive.present
       /\ GetLineNumber(documentContents, startPosition) = directive.line
       /\ \/ Len(directive.ids) = 0
          \/ \E k \in 1..Len(directive.ids) : directive.ids[k] = ruleID
       /\ directive.reviewed => ruleSeverity = "ManualReview"
    THEN [showFinding |-> TRUE, ruleColumn |-> directive.ruleColumn]
    ELSE [showFinding |-> FALSE, ruleColumn |-> -1]

\* DevSkimSuppression.createActions: the fixes that write a directive
CreateActions(ruleID, lineStart) ==
    << [text    |-> <<>>,
        fixName |-> <<"DevSkim: Suppress ", ruleID>>,
        range   |-> RangeCreate(lineStart, 0, lineStart, 0)] >>

-----------------------------------------------------------------------------
(* The body of the scan loop of runAnalysis *)

\* the range runAnalysis computes for a match
MatchRange(documentContents, match) ==
    LET lineStart == GetLineNumber(documentContents, match.index)
        newlineIndex == NewlineIndex(documentContents, match.index)
        columnStart == match.index - newlineIndex - 1
        replacementSource == Substr(documentContents, match.index, match.length)
        lineEnd == GetLineNumber(replacementSource, Len(replacementSource)) + lineStart
        columnEnd == IF lineStart = lineEnd
                     THEN columnStart + match.length
                     ELSE match.length
                            - IndexOf(SubstrFrom(documentContents, match.index), <<NL>>) - 1
    IN  RangeCreate(lineStart, columnStart, lineEnd, columnEnd)

\* the live branch without its test of the suppression finding
LiveGateUnsuppressed(suppressionFinding, inScope) == inScope

\* the first two tests of the live branch: the finding is not suppressed and
\* the match is in scope
LiveGate(suppressionFinding, inScope) ==
    ~suppressionFinding.showFinding /\ inScope

\* One iteration of the while loop for a match of pattern patternIndex of
\* rule: status is "ok", "throw" or "hang"; pushed holds the problem the
\* iteration pushes, if any; visited is the number of conditions entered.
MatchBody(rule, ruleIndex, patternIndex, match, documentContents, langID, directive) ==
    LET ruleSeverity == MapRuleSeverity(rule.severity)
        conditions == IF rule.conditionsDefined THEN rule.conditions ELSE <<>>
        suppressionFinding == IsFindingCommented(directive, match.index, documentContents,
                                                 rule.id, ruleSeverity)
        lineStart == GetLineNumber(documentContents, match.index)
        newlineIndex == NewlineIndex(documentContents, match.index)
        columnStart == match.index - newlineIndex - 1
        replacementSource == Substr(documentContents, match.index, match.length)
        range == MatchRange(documentContents, match)
        origin == [rule |-> ruleIndex, pattern |-> patternIndex,
                   index |-> match.index, length |-> match.length]
        inScope == MatchIsInScope(langID, Substr(documentContents, 0, match.index),
                                  newlineIndex, rule.patterns[patternIndex].scopes)
        evaluated == LiveGate(suppressionFinding, inScope)
        cond == IF evaluated
                THEN MatchesConditions(conditions, documentContents, range, langID)
                ELSE [outcome |-> "false", visited |-> 0]
        made == MakeFixes(rule, replacementSource, range)
        live == MakeProblem(rule, MapRuleSeverity(rule.severity), range, NoRange, origin)
        suppressionRange ==
            RangeCreate(lineStart, columnStart + suppressionFinding.ruleColumn,
                        lineStart, columnStart + suppressionFinding.ruleColumn + Len(rule.id))
        marker == MakeProblem(rule, "WarningInfo", suppressionRange, range, origin)
    IN  IF cond.outcome \in {"throw", "hang"}
        THEN [status |-> cond.outcome, pushed |-> <<>>, visited |-> cond.visited]
        ELSE IF cond.outcome = "true"
        THEN IF made.threw
             THEN [status |-> "throw", pushed |-> <<>>, visited |-> cond.visited]
             ELSE [status |-> "ok",
                   pushed |-> << [live EXCEPT !.fixes =
                                     (live.fixes \o made.fixes)
                                        \o CreateActions(rule.id, lineStart)] >>,
                   visited |-> cond.visited]
        ELSE IF suppressionFinding.ruleColumn > 0
        THEN [status |-> "ok", pushed |-> <<marker>>, visited |-> cond.visited]
        ELSE [status |-> "ok", pushed |-> <<>>, visited |-> cond.visited]

\* the rule after an iteration: conditions set to [] when undefined, and
\* negateFinding set on the conditions MatchesConditions entered
RuleAfterMatch(rule, visited) ==
    [rule EXCEPT !.conditionsDefined = TRUE,
                 !.conditions = IF rule.conditionsDefined
                                THEN SetNegateFinding(rule.conditions, visited)
                                ELSE <<>>]

\* the regular expression runAnalysis makes of a pattern of a rule
MatchPattern(pattern) ==
    MakeRegex(pattern.type, pattern.pattern,
              IF Len(pattern.modifiers) > 0 THEN pattern.modifiers \o <<"g">> ELSE <<"g">>,
              TRUE)

\* the test of runAnalysis on a rule before it scans with it
RuleApplies(rule, settings, langID, documentURI) ==
    /\ \A k \in 1..Len(settings.ignoreRulesList) : settings.ignoreRulesList[k] # rule.id
    /\ AppliesToLangOrFile(langID, rule.appliesTo, documentURI)
    /\ RuleSeverityEnabled(MapRuleSeverity(rule.severity), settings)

-----------------------------------------------------------------------------
(* The state of a DevSkimWorker and of one analyzeText call *)

VARIABLES
    documentContents,  \* the arguments of the call
    langID,
    documentURI,
    analysisRules,     \* this.analysisRules
    rulesLoaded,       \* FALSE while this.analysisRules is undefined
    settings,          \* this.dswSettings.getSettings()
    directive,         \* the suppression directive the detector finds
    pc,                \* "idle", "rule", "pattern", "match", "overrides",
                       \* "done", "thrown" or "hung"
    ruleIndex,         \* the rule of the for loop (1-based)
    patternIndex,      \* the pattern of the inner for loop (1-based)
    matchPosition,     \* the scan cursor of runAnalysis
    match,             \* the current match of the while loop
    iter,              \* iterations of the while loop for this pattern
    problems,          \* the problems array of runAnalysis
    result,            \* what analyzeText returned
    calls,             \* the analyzeText calls that returned before this one
    firstResult,       \* what the first of them returned
    codeActions,       \* this.codeActions
    commentCall,       \* a call of IsFindingInComment: its arguments and answer
    loading,           \* the loadRules calls that have not assigned the rules yet
    ruleSnapshot       \* the array the for of runAnalysis goes through

vars == <<documentContents, langID, documentURI, analysisRules, rulesLoaded,
          settings, directive, pc, ruleIndex, patternIndex, matchPosition,
          match, iter, problems, result, calls, firstResult, codeActions,
          commentCall, loading, ruleSnapshot>>

inputs == <<documentContents, langID, documentURI, settings, directive, rulesLoaded>>

\* what lives on the worker from one analyzeText call to the next, beside
\* the rules
session == <<calls, firstResult, codeActions>>

\* what an analysis has no part in
aside == <<commentCall, loading>>

-----------------------------------------------------------------------------
(* The inputs the model draws from *)

\* the strings over an alphabet of at most n characters
Strings(alphabet, n) == UNION {[1..k -> alphabet] : k \in 0..n}

DefaultSettings ==
    [ignoreFilesList |-> <<>>, ignoreRulesList |-> <<>>,
     enableBestPracticeRules |-> FALSE, enableManualReviewRules |-> FALSE]

NoDirective ==
    [present |-> FALSE, line |-> 0, ids |-> <<>>, reviewed |-> FALSE, ruleColumn |-> -1]

DocumentURI == <<"f", ".", "c">>

Scenario(doc, lang, rules, sett, dir) ==
    [documentContents |-> doc, langID |-> lang, analysisRules |-> rules,
     settings |-> sett, directive |-> dir, documentURI |-> DocumentURI,
     rulesLoaded |-> TRUE]

AllScope == <<"all">>

\* a pattern that matches the text lit wherever it occurs
Lit(lit) == Pattern("substring", lit, <<>>, AllScope)

\* a rule with one pattern and nothing else
PlainRule(id, pattern) ==
    Rule(id, "critical", <<>>, <<>>, <<pattern>>, FALSE, <<>>, <<>>)

\* the sequences of at most n elements of S
RECURSIVE Arrangements(_, _)
Arrangements(S, n) ==
    IF n = 0 THEN {<<>>}
    ELSE LET shorter == Arrangements(S, n - 1)
         IN  shorter \cup
             {Append(q, x) : q \in {r \in shorter : Len(r) = n - 1}, x \in S}

Distinct(q) == \A j, k \in 1..Len(q) : q[j] = q[k] => j = k

\* Matches of one to three characters, across line breaks of every form
RangeScenarios ==
    {Scenario(doc, "plaintext", <<PlainRule(<<"D", "1">>, Lit(pat))>>,
              DefaultSettings, NoDirective) :
        doc \in Strings({"a", NL, CR}, MaxDocLen),
        pat \in Strings({"a", NL, CR}, 3) \ {<<>>}}

\* Rules that fire at the same places and override one another
OverrideRule(id, overrides) ==
    Rule(id, "critical", <<>>, overrides, <<Lit(<<"a">>)>>, FALSE, <<>>, <<>>)

OverridePool ==
    {OverrideRule(<<"D", "1">>, <<>>),
     OverrideRule(<<"D", "2">>, <<>>),
     OverrideRule(<<"D", "1", "2">>, <<>>),
     OverrideRule(<<"D", "1", "2">>, << <<"D", "1">> >>),
     OverrideRule(<<"P">>, << <<"D", "1">> >>),
     OverrideRule(<<"P">>, << <<"D", "1">>, <<"D", "2">> >>),
     OverrideRule(<<"Q">>, << <<"P">> >>)}

\* no directive; one that names rule P, its id found at column 2; one that
\* names no rule and so covers every rule, with no column to report
OverrideDirectives ==
    {NoDirective,
     [present |-> TRUE, line |-> 0, ids |-> << <<"P">> >>, reviewed |-> FALSE,
      ruleColumn |-> 2],
     [present |-> TRUE, line |-> 0, ids |-> <<>>, reviewed |-> FALSE,
      ruleColumn |-> -1]}

OverrideScenarios ==
    {Scenario(doc, "plaintext", rules, DefaultSettings, dir) :
        doc \in {<<"a">>, <<"a", "a">>, <<"a", NL, "a">>},
        rules \in {q \in Arrangements(OverridePool, MaxRules) :
                      q # <<>> /\ Distinct([k \in 1..Len(q) |-> q[k].id])},
        dir \in OverrideDirectives}

\* One rule with one condition, for every search_in and negateFinding
SearchIns ==
    {SearchInUndefined,
     SearchIn(TRUE, "", 0, 0),
     SearchIn(TRUE, "finding-only", 0, 0),
     SearchIn(TRUE, "finding-region", 0, 0),
     SearchIn(TRUE, "finding-region", 0, 1),
     SearchIn(TRUE, "finding-region", -1, 0)}

ConditionRule(pat, search_in, negateFinding) ==
    Rule(<<"D", "1">>, "critical", <<>>, <<>>, <<Lit(pat)>>, TRUE,
         <<Condition(Lit(<<"b">>), search_in, negateFinding)>>, <<>>)

ConditionScenarios ==
    {Scenario(doc, "plaintext", <<ConditionRule(pat, si, neg)>>,
              DefaultSettings, NoDirective) :
        doc \in Strings({"a", "b", NL}, MaxDocLen),
        pat \in {<<"a">>, <<"a", "b">>},
        si \in SearchIns,
        neg \in {"undefined", "true", "false"}}

\* One rule with one pattern, for every scope list and comment form
ScopeLists == {<<>>, <<"all">>, <<"code">>, <<"comment">>, <<"code", "comment">>}

ScopeRule(scopes) ==
    PlainRule(<<"D", "1">>, Pattern("substring", <<"a">>, <<>>, scopes))

ScopeScenarios(lang, alphabet, n) ==
    {Scenario(doc, lang, <<ScopeRule(scopes)>>, DefaultSettings, NoDirective) :
        doc \in Strings(alphabet, n), scopes \in ScopeLists}

\* Rules with fix templates, well formed and not
FixPool ==
    {FixIt("f1", Pattern("substring", <<"a">>, <<>>, AllScope), <<"b">>),
     FixIt("f2", Pattern("regex", <<"a">>, <<>>, AllScope), <<>>),
     FixIt("f3", Pattern("regex", <<"(">>, <<>>, AllScope), <<"b">>)}

FixPatterns ==
    {Pattern(type, pat, <<>>, AllScope) :
        type \in {"regex", "regex-word", "string", "substring"},
        pat \in {<<"a">>, <<"(">>}}

FixRule(pattern, fixIts) ==
    Rule(<<"D", "1">>, "critical", <<>>, <<>>, <<pattern>>, FALSE, <<>>, fixIts)

FixScenarios ==
    {Scenario(doc, "plaintext", <<FixRule(pattern, fixIts)>> \o tail,
              DefaultSettings, NoDirective) :
        doc \in Strings({"a", "("}, 2),
        pattern \in FixPatterns,
        fixIts \in {q \in Arrangements(FixPool, MaxFixes) : Distinct(q)},
        tail \in {<<>>, <<PlainRule(<<"D", "2">>, Lit(<<"a">>))>>}}

\* Patterns and conditions that match the empty string
ZeroWidthRule(type, pat, conditions) ==
    Rule(<<"D", "1">>, "critical", <<>>, <<>>, <<Pattern(type, pat, <<>>, AllScope)>>,
         TRUE, conditions, <<>>)

ZeroWidthConditions ==
    {<<>>} \cup
    {<<Condition(Pattern("regex", pat, <<>>, scopes), SearchInUndefined, neg)>> :
        pat \in {<<>>, <<"a">>},
        scopes \in {<<"all">>, <<"comment">>},
        neg \in {"true", "false"}}

ZeroWidthScenarios ==
    {Scenario(doc, "plaintext", <<ZeroWidthRule(type, pat, conditions)>>,
              DefaultSettings, NoDirective) :
        doc \in Strings({"a", NL}, 2),
        type \in {"regex", "regex-word"},
        pat \in {<<>>, <<"a">>},
        conditions \in ZeroWidthConditions}

\* One rule with no, one or two conditions on "b": scoped to code, to
\* comments or to both, negated or not, one of them malformed
ConjunctionPool ==
    {Condition(Pattern("substring", <<"b">>, <<>>, <<"all">>), SearchInUndefined, "undefined"),
     Condition(Pattern("substring", <<"b">>, <<>>, <<"code">>), SearchInUndefined, "true"),
     Condition(Pattern("substring", <<"b">>, <<>>, <<"code">>), SearchInUndefined, "false"),
     Condition(Pattern("substring", <<"b">>, <<>>, <<"comment">>), SearchInUndefined, "false"),
     Condition(Pattern("regex", <<"(">>, <<>>, <<"all">>), SearchInUndefined, "false")}

ConjunctionRule(conditionsDefined, conditions) ==
    Rule(<<"D", "1">>, "critical", <<>>, <<>>, <<Lit(<<"a">>)>>,
         conditionsDefined, conditions, <<>>)

ConjunctionScenarios ==
    {Scenario(doc, "vb", <<ConjunctionRule(defined \/ conditions # <<>>, conditions)>>,
              DefaultSettings, NoDirective) :
        doc \in Strings({"a", "b", "'"}, MaxDocLen),
        conditions \in Arrangements(ConjunctionPool, 2),
        defined \in BOOLEAN}

\* One rule of every severity, in several spellings and in none that is
\* known, under every setting of the two flags, with and without a
\* suppression directive for its matches
SeverityNames ==
    {"critical", "Critical", "CRITICAL", "important", "Important", "moderate",
     "Moderate", "best-practice", "Best-Practice", "manual-review",
     "Manual-Review", "low", ""}

SeverityRule(severity) ==
    Rule(<<"D", "1">>, severity, <<>>, <<>>, <<Lit(<<"a">>)>>, FALSE, <<>>, <<>>)

SeverityDirectives ==
    {NoDirective,
     [present |-> TRUE, line |-> 0, ids |-> << <<"D", "1">> >>, reviewed |-> FALSE,
      ruleColumn |-> 2],
     [present |-> TRUE, line |-> 0, ids |-> << <<"D", "1">> >>, reviewed |-> TRUE,
      ruleColumn |-> 2]}

SeverityScenarios ==
    {Scenario(doc, "plaintext", <<SeverityRule(severity)>>,
              [DefaultSettings EXCEPT !.enableBestPracticeRules = bestPractice,
                                      !.enableManualReviewRules = manualReview],
              dir) :
        doc \in Strings({"a", NL}, 2),
        severity \in SeverityNames,
        bestPractice \in BOOLEAN,
        manualReview \in BOOLEAN,
        dir \in SeverityDirectives}

\* One rule with every appliesTo of up to two entries (language ids and file
\* name fragments, in small letters and in capitals), for two languages, two
\* documents and several lists of rules to ignore
AppliesToPool ==
    {<<"c">>, <<"C">>, <<"v", "b">>, <<"c", "p", "p">>, <<"f">>,
     <<".", "c">>, <<".", "C">>, <<".", "h">>}

AppliesToRule(appliesTo) ==
    Rule(<<"D", "1">>, "critical", appliesTo, <<>>, <<Lit(<<"a">>)>>, FALSE, <<>>, <<>>)

IgnoreRulesLists == {<<>>, << <<"D", "1">> >>, << <<"D">> >>, << <<"D", "2">>, <<"D", "1">> >>}

AppliesToScenarios ==
    {[Scenario(doc, lang, <<AppliesToRule(appliesTo)>>,
               [DefaultSettings EXCEPT !.ignoreRulesList = list], NoDirective)
         EXCEPT !.documentURI = uri] :
        doc \in Strings({"a"}, 2),
        lang \in {"c", "vb"},
        appliesTo \in Arrangements(AppliesToPool, 2),
        list \in IgnoreRulesLists,
        uri \in {DocumentURI, <<"g", ".", "h">>}}

\* Calls that analyzeText answers without analysing, and their neighbours:
\* rules not loaded, no rules, a document of the ignore list
IgnoreLists == {<<>>, << <<".", "c">> >>, << <<"x">> >>, << <<"x">>, <<"f">> >>}

IgnoreScenarios ==
    {[Scenario(doc, "plaintext", rules,
               [DefaultSettings EXCEPT !.ignoreFilesList = list], NoDirective)
         EXCEPT !.documentURI = uri, !.rulesLoaded = loaded \/ rules # <<>>] :
        doc \in Strings({"a"}, 2),
        rules \in {<<>>, <<PlainRule(<<"D", "1">>, Lit(<<"a">>))>>},
        list \in IgnoreLists,
        uri \in {DocumentURI, <<"g", ".", "h">>},
        loaded \in BOOLEAN}

\* the families of scenarios
Scenarios ==
    {RangeScenarios, OverrideScenarios, ConditionScenarios,
     ScopeScenarios("vb", {"a", "'", NL, CR}, MaxDocLen),
     ScopeScenarios("c", {"a", "/", "*", NL}, MaxDocLen),
     ScopeScenarios("plaintext", {"a", "'", NL}, 2),
     FixScenarios, ZeroWidthScenarios, IgnoreScenarios, ConjunctionScenarios,
     SeverityScenarios, AppliesToScenarios}

-----------------------------------------------------------------------------
(* analyzeText, step by step *)

\* a worker with its rules and settings, and the arguments of the first
\* analyzeText call; nothing recorded in codeActions
\* no call of IsFindingInComment
NoCommentCall ==
    [asked |-> FALSE, langID |-> "plaintext", documentContents |-> <<>>,
     newlineIndex |-> -1, onlyBlock |-> FALSE, answer |-> FALSE]

StartWorker(sc) ==
    /\ documentContents = sc.documentContents
    /\ langID = sc.langID
    /\ analysisRules = sc.analysisRules
    /\ settings = sc.settings
    /\ directive = sc.directive
    /\ documentURI = sc.documentURI
    /\ rulesLoaded = sc.rulesLoaded
    /\ calls = 0
    /\ firstResult = <<>>
    /\ codeActions = <<>>
    /\ pc = "idle"
    /\ ruleIndex = 0
    /\ patternIndex = 0
    /\ matchPosition = 0
    /\ match = NoMatch
    /\ iter = 0
    /\ problems = <<>>
    /\ result = <<>>
    /\ loading = 0
    /\ ruleSnapshot = <<>>

Start(sc) == StartWorker(sc) /\ commentCall = NoCommentCall

Init == \E family \in Scenarios : \E sc \in family : Start(sc)

\* the test of analyzeText without its look at the ignore list
ShouldAnalyzeAnyFile(loaded, rules, sett, uri) ==
    /\ loaded
    /\ Len(rules) > 0

\* the test of analyzeText before it analyses
ShouldAnalyze(loaded, rules, sett, uri) ==
    /\ loaded
    /\ Len(rules) > 0
    /\ ~IgnoreFile(uri, sett.ignoreFilesList)

\* analyzeText is called: the ignore test, then runAnalysis begins
AnalyzeText ==
    /\ pc = "idle"
    /\ IF ShouldAnalyze(rulesLoaded, analysisRules, settings, documentURI)
       THEN /\ pc' = "rule"
            /\ ruleIndex' = 1
       ELSE /\ pc' = "done"
            /\ ruleIndex' = ruleIndex
    /\ problems' = <<>>
    /\ result' = <<>>
    /\ ruleSnapshot' = analysisRules
    /\ UNCHANGED <<inputs, session, aside, analysisRules, patternIndex, matchPosition, match,
                   iter>>

\* the head of the loop over the rules; after the last rule runAnalysis
\* returns
NextRule ==
    /\ pc = "rule"
    /\ IF ruleIndex > Len(analysisRules)
       THEN /\ pc' = "overrides"
            /\ UNCHANGED <<ruleIndex, patternIndex>>
       ELSE IF RuleApplies(analysisRules[ruleIndex], settings, langID, documentURI)
       THEN /\ pc' = "pattern"
            /\ patternIndex' = 1
            /\ UNCHANGED ruleIndex
       ELSE /\ pc' = "rule"
            /\ ruleIndex' = ruleIndex + 1
            /\ UNCHANGED patternIndex
    /\ UNCHANGED <<inputs, session, aside, analysisRules, ruleSnapshot, matchPosition,
                   match, iter, problems, result>>

\* the head of the loop over the patterns of a rule: MakeRegex and the
\* first XRegExp.exec
NextPattern ==
    /\ pc = "pattern"
    /\ LET rule == analysisRules[ruleIndex]
       IN  IF patternIndex > Len(rule.patterns)
           THEN /\ pc' = "rule"
                /\ ruleIndex' = ruleIndex + 1
                /\ UNCHANGED <<patternIndex, matchPosition, match, iter>>
           ELSE LET matchPattern == MatchPattern(rule.patterns[patternIndex])
                    first == Exec(documentContents, matchPattern, 0)
                IN  IF ~matchPattern.ok
                    THEN /\ pc' = "thrown"
                         /\ UNCHANGED <<ruleIndex, patternIndex, matchPosition, match, iter>>
                    ELSE /\ matchPosition' = 0
                         /\ match' = first
                         /\ iter' = 0
                         /\ pc' = IF first = NoMatch THEN "pattern" ELSE "match"
                         /\ patternIndex' = IF first = NoMatch THEN patternIndex + 1
                                            ELSE patternIndex
                         /\ UNCHANGED ruleIndex
    /\ UNCHANGED <<inputs, session, aside, analysisRules, ruleSnapshot, problems, result>>

\* one iteration of while (match): the problem for the match, then the
\* cursor moves to match.index + match[0].length and XRegExp.exec runs again
MatchStep ==
    /\ pc = "match"
    /\ iter < MaxIter
    /\ LET rule == analysisRules[ruleIndex]
           body == MatchBody(rule, ruleIndex, patternIndex, match, documentContents,
                             langID, directive)
           position == match.index + match.length
           next == Exec(documentContents, MatchPattern(rule.patterns[patternIndex]), position)
       IN  /\ analysisRules' = [analysisRules EXCEPT
                                   ![ruleIndex] = RuleAfterMatch(rule, body.visited)]
           /\ ruleSnapshot' = analysisRules'
           /\ IF body.status = "ok"
              THEN /\ problems' = problems \o body.pushed
                   /\ matchPosition' = position
                   /\ match' = next
                   /\ iter' = iter + 1
                   /\ pc' = IF next = NoMatch THEN "pattern" ELSE "match"
                   /\ patternIndex' = IF next = NoMatch THEN patternIndex + 1
                                      ELSE patternIndex
              ELSE /\ pc' = IF body.status = "throw" THEN "thrown" ELSE "hung"
                   /\ UNCHANGED <<problems, matchPosition, match, iter, patternIndex>>
    /\ UNCHANGED <<inputs, session, aside, ruleIndex, result>>

\* processOverrides on what runAnalysis returned; analyzeText returns
ProcessOverridesStep ==
    /\ pc = "overrides"
    /\ result' = ProcessOverrides(problems)
    /\ pc' = "done"
    /\ UNCHANGED <<inputs, session, aside, analysisRules, ruleSnapshot, ruleIndex,
                   patternIndex, matchPosition, match, iter, problems>>

Next ==
    \/ AnalyzeText
    \/ NextRule
    \/ NextPattern
    \/ MatchStep
    \/ ProcessOverridesStep

Spec == Init /\ [][Next]_vars

-----------------------------------------------------------------------------
(* A worker that is called again *)

\* the calls whose rules carry what an analysis writes to them
RepeatScenarios ==
    {OverrideScenarios, ConditionScenarios, FixScenarios, IgnoreScenarios}

InitRepeat == \E family \in RepeatScenarios : \E sc \in family : Start(sc)

\* analyzeText has returned and the host calls it again, with the same
\* arguments, on the same worker
AnalyzeAgain ==
    /\ pc = "done"
    /\ calls + 1 < MaxCalls
    /\ calls' = calls + 1
    /\ firstResult' = IF calls = 0 THEN result ELSE firstResult
    /\ pc' = "idle"
    /\ UNCHANGED <<inputs, aside, codeActions, analysisRules, ruleSnapshot, ruleIndex,
                   patternIndex, matchPosition, match, iter, problems, result>>

NextRepeat ==
    \/ AnalyzeText
    \/ NextRule
    \/ NextPattern
    \/ MatchStep
    \/ ProcessOverridesStep
    \/ AnalyzeAgain

SpecRepeat == InitRepeat /\ [][NextRepeat]_vars

-----------------------------------------------------------------------------
(* Rules reloaded while documents are analysed *)

\* what the loader and the validator may hand to loadRules
ReloadRuleSets ==
    {<<>>,
     <<OverrideRule(<<"D", "1">>, <<>>)>>,
     <<OverrideRule(<<"D", "2">>, <<>>)>>,
     <<OverrideRule(<<"P">>, << <<"D", "1">> >>), OverrideRule(<<"D", "1">>, <<>>)>>,
     <<ConditionRule(<<"a">>, SearchInUndefined, "undefined")>>}

\* a worker before init() has loaded its rules, and workers with rules
ReloadScenarios ==
    {[Scenario(doc, "plaintext", rules, DefaultSettings, NoDirective)
         EXCEPT !.rulesLoaded = loaded \/ rules # <<>>] :
        doc \in {<<"a">>, <<"a", "b">>, <<"a", NL, "a">>},
        rules \in ReloadRuleSets,
        loaded \in BOOLEAN}

InitReload == \E sc \in ReloadScenarios : Start(sc)

\* analyzeText is not on the stack: it has not been called, or it has
\* returned or thrown.  It is a synchronous function, so nothing else of the
\* worker runs from its call to its return.
StackEmptyAlways == TRUE

StackEmpty == pc \in {"idle", "done", "thrown"}

\* refreshAnalysisRules: loadRules is called and waits for the loader
RefreshAnalysisRules ==
    /\ StackEmpty
    /\ loading < MaxLoads
    /\ loading' = loading + 1
    /\ UNCHANGED <<inputs, session, commentCall, analysisRules, ruleSnapshot, pc,
                   ruleIndex, patternIndex, matchPosition, match, iter, problems,
                   result>>

\* loadRules resumes behind its last await and assigns this.analysisRules
LoadRulesComplete ==
    /\ StackEmpty
    /\ loading > 0
    /\ loading' = loading - 1
    /\ \E rules \in ReloadRuleSets : analysisRules' = rules
    /\ rulesLoaded' = TRUE
    /\ UNCHANGED <<documentContents, langID, documentURI, settings, directive, session,
                   commentCall, ruleSnapshot, pc, ruleIndex, patternIndex,
                   matchPosition, match, iter, problems, result>>

NextReload ==
    \/ AnalyzeText
    \/ NextRule
    \/ NextPattern
    \/ MatchStep
    \/ ProcessOverridesStep
    \/ AnalyzeAgain
    \/ RefreshAnalysisRules
    \/ LoadRulesComplete

SpecReload == InitReload /\ [][NextReload]_vars

-----------------------------------------------------------------------------
(* The fixes the host records: recordCodeAction *)

\* x.toString(10), x below 100
Digit(d) ==
    CASE d = 0 -> "0" [] d = 1 -> "1" [] d = 2 -> "2" [] d = 3 -> "3"
      [] d = 4 -> "4" [] d = 5 -> "5" [] d = 6 -> "6" [] d = 7 -> "7"
      [] d = 8 -> "8" [] OTHER -> "9"

ToString10(x) ==
    IF x < 10 THEN <<Digit(x)>> ELSE <<Digit(x \div 10), Digit(x % 10)>>

\* computeKey of devskimObjects.ts: a text that stands for the range and the
\* diagnostic code, taken here as one character that is no digit
ComputeKey(range, diagnosticCode) ==
    << [range |-> range, diagnosticCode |-> diagnosticCode] >>

\* map[key] = value
Put(map, key, value) ==
    [k \in DOMAIN map \cup {key} |-> IF k = key THEN value ELSE map[k]]

\* the while loop replaced by x = 0
FreeOrdinalZero(edits, key, x) == 0

\* while (edits[key + x.toString(10)]) x++
RECURSIVE FreeOrdinal(_, _, _)
FreeOrdinal(edits, key, x) ==
    IF (key \o ToString10(x)) \in DOMAIN edits
    THEN FreeOrdinal(edits, key, x + 1)
    ELSE x

\* this.codeActions after recordCodeAction.  A fix that is null or undefined
\* has given = FALSE.
RecordCodeActionResult(actions, uri, documentVersion, range, diagnosticCode, fix, ruleID) ==
    IF ~fix.given \/ Len(ruleID) = 0 THEN actions
    ELSE LET fixName == IF Len(fix.fixName) > 0 THEN fix.fixName
                        ELSE <<"Fix this ", ruleID, " problem">>
             edits == IF uri \in DOMAIN actions THEN actions[uri] ELSE <<>>
             key == ComputeKey(range, diagnosticCode)
             x == FreeOrdinal(edits, key, 0)
         IN  Put(actions, uri,
                 Put(edits, key \o ToString10(x),
                     [label |-> fixName, documentVersion |-> documentVersion,
                      ruleId |-> ruleID, edit |-> fix]))

\* the number of entries of codeActions
Entries(actions) ==
    LET RECURSIVE Sum(_)
        Sum(S) == IF S = {} THEN 0
                  ELSE LET u == CHOOSE u \in S : TRUE
                       IN  Cardinality(DOMAIN actions[u]) + Sum(S \ {u})
    IN  Sum(DOMAIN actions)

RecordURIs == {DocumentURI, <<"g", ".", "h">>}

RecordRanges == {RangeCreate(0, 0, 0, 1), RangeCreate(1, 0, 1, 1)}

RecordCodes == {<<"D", "1">>, <<"D", "1", "2">>}

RecordFixes ==
    {[given |-> FALSE, fixName |-> <<>>, text |-> <<>>],
     [given |-> TRUE, fixName |-> <<>>, text |-> <<"b">>],
     [given |-> TRUE, fixName |-> <<"DevSkim: ", "f1">>, text |-> <<"b">>]}

RecordRuleIDs == {<<>>, <<"D", "1">>}

\* a worker nothing has been recorded on
InitRecord ==
    Start(Scenario(<<>>, "plaintext", <<>>, DefaultSettings, NoDirective))

\* the host records a fix; it stamps the calls with growing document
\* versions
RecordCodeAction ==
    /\ Entries(codeActions) < MaxRecords
    /\ \E uri \in RecordURIs, range \in RecordRanges, diagnosticCode \in RecordCodes,
          fix \in RecordFixes, ruleID \in RecordRuleIDs :
          codeActions' = RecordCodeActionResult(codeActions, uri, Entries(codeActions),
                                                range, diagnosticCode, fix, ruleID)
    /\ UNCHANGED <<inputs, aside, calls, firstResult, analysisRules, ruleSnapshot, pc,
                   ruleIndex, patternIndex, matchPosition, match, iter, problems, result>>

NextRecord == RecordCodeAction

SpecRecord == InitRecord /\ [][NextRecord]_vars

-----------------------------------------------------------------------------
(* The comment oracle, called on its own *)

\* a language with line comments, one with line and block comments, and two
\* of no comment table: one the host knows and one it does not
CommentLanguages == {"vb", "c", "plaintext", "cobol"}

CommentCalls ==
    {[asked |-> FALSE, langID |-> lang, documentContents |-> text,
      newlineIndex |-> n, onlyBlock |-> only, answer |-> FALSE] :
        lang \in CommentLanguages,
        text \in Strings({"/", "*", "'", NL}, MaxDocLen),
        n \in -1..MaxDocLen,
        only \in BOOLEAN}

InitComment ==
    /\ StartWorker(Scenario(<<>>, "plaintext", <<>>, DefaultSettings, NoDirective))
    /\ \E call \in CommentCalls :
          /\ call.newlineIndex < Len(call.documentContents)
          /\ commentCall = call

IsFindingInCommentCall ==
    /\ ~commentCall.asked
    /\ commentCall' =
          [commentCall EXCEPT
              !.asked = TRUE,
              !.answer = IsFindingInComment(commentCall.langID,
                                            commentCall.documentContents,
                                            commentCall.newlineIndex,
                                            commentCall.onlyBlock)]
    /\ UNCHANGED <<inputs, session, loading, analysisRules, ruleSnapshot, pc, ruleIndex,
                   patternIndex, matchPosition, match, iter, problems, result>>

NextComment == IsFindingInCommentCall

SpecComment == InitComment /\ [][NextComment]_vars

-----------------------------------------------------------------------------
(* Vocabulary of the properties *)

Elements(q) == {q[k] : k \in 1..Len(q)}

\* a live finding, as opposed to the marker of a suppression directive
Live(p) == p.suppressedFindingRange = NoRange

RuleOf(p) == analysisRules[p.origin.rule]

PatternOf(p) == RuleOf(p).patterns[p.origin.pattern]

\* the range override resolution compares the other problems with
Anchor(p) == IF Live(p) THEN p.range ELSE p.suppressedFindingRange

\* q of the list runAnalysis returned is in what analyzeText returned
Survives(q) ==
    \E k \in 1..Len(result) :
        result[k].origin = q.origin /\ result[k].range = q.range

\* the offsets just behind a line break of s, and offset 0: where lines start
LineStarts(s) ==
    {0} \cup {i \in 1..Len(s) :
                 \/ s[i] = NL
                 \/ s[i] = CR /\ ~(i < Len(s) /\ s[i + 1] = NL)}

LineCount(s) == Cardinality(LineStarts(s))

LineStartOf(s, line) ==
    CHOOSE x \in LineStarts(s) : Cardinality({y \in LineStarts(s) : y < x}) = line

\* the number of characters of a line, its line break not counted
LineLength(s, line) ==
    LET from == LineStartOf(s, line)
        stops == {j \in from..Len(s) : j = Len(s) \/ s[j + 1] \in {NL, CR}}
    IN  SetMin(stops) - from

PositionExists(s, position) ==
    /\ position.line >= 0
    /\ position.line < LineCount(s)
    /\ position.character >= 0
    /\ position.character <= LineLength(s, position.line)

PositionLeq(p1, p2) ==
    \/ p1.line < p2.line
    \/ p1.line = p2.line /\ p1.character <= p2.character

\* the offsets at which the scan of a one-character pattern finds it
Occurrences(s, pattern) ==
    {i \in 0..Len(s) : MatchAt(s, MatchPattern(pattern), i)}

\* some in-scope match of the pattern of a condition begins in from..(to - 1)
ConditionMatchIn(condition, from, to) ==
    \E i \in from..(to - 1) :
        /\ MatchAt(documentContents, MatchPattern(condition.pattern), i)
        /\ MatchIsInScope(langID, Substr(documentContents, 0, i),
                          LastIndexOf(Substr(documentContents, 0, i), <<NL>>),
                          condition.pattern.scopes)

-----------------------------------------------------------------------------
(* Override resolution *)

\* C1: when analyzeText has returned, no two distinct problems p and q of
\* the result are such that the rule of p overrides the rule id of q and q
\* starts where the anchor of p starts.
C1_OverrideClosure ==
    pc = "done" =>
        \A j, k \in 1..Len(result) :
            j # k =>
                ~ /\ result[k].ruleId \in Elements(RuleOf(result[j]).overrides)
                  /\ result[k].range.start = Anchor(result[j]).start

\* C10: a problem that runAnalysis returned and analyzeText did not was
\* removed for another problem of the list, which names its rule id among
\* its overrides and whose anchor starts where it starts.
C10_OverrideRemovalExact ==
    pc = "done" =>
        \A k \in 1..Len(problems) :
            ~Survives(problems[k]) =>
                \E j \in 1..Len(problems) :
                    /\ j # k
                    /\ problems[k].ruleId \in Elements(problems[j].overrides)
                    /\ problems[k].range.start = Anchor(problems[j]).start

\* the place in the list of runAnalysis of a problem analyzeText returned
IndexIn(p) ==
    CHOOSE n \in 1..Len(problems) :
        problems[n].origin = p.origin /\ problems[n].range = p.range

\* C11: when analyzeText has returned, every problem of the result has an
\* empty overrides list, and the problems of the result are problems of
\* runAnalysis in the order runAnalysis gave them.
C11_OverrideFixedPoint ==
    pc = "done" =>
        /\ \A k \in 1..Len(result) : result[k].overrides = <<>>
        /\ \A k \in 1..Len(result) :
              \E n \in 1..Len(problems) :
                  problems[n].origin = result[k].origin /\ problems[n].range = result[k].range
        /\ \A j, k \in 1..Len(result) :
              j < k => IndexIn(result[j]) < IndexIn(result[k])

\* a problem was removed while the loops ran, and two problems are left, one
\* of a rule with overrides
C11_Witness ==
    /\ pc = "done"
    /\ Len(result) >= 2
    /\ Len(result) < Len(problems)
    /\ \E k \in 1..Len(result) : RuleOf(result[k]).overrides # <<>>

-----------------------------------------------------------------------------
(* Termination of the scans *)

\* C2: every iteration of the scan loop of runAnalysis leaves the cursor
\* behind the offset of the match it handled, and the scan of a condition
\* never runs for ever.
C2_ScansAdvance ==
    [][pc = "match" =>
          /\ pc' # "hung"
          /\ pc' \in {"match", "pattern"} => matchPosition' > match.index]_vars

-----------------------------------------------------------------------------
(* What a scan is expected to emit *)

\* the conditions of a rule, none when rule.conditions is undefined
ConditionsOf(rule) == IF rule.conditionsDefined THEN rule.conditions ELSE <<>>

\* a live problem of runAnalysis for the match of rule number r at offset i
Emitted(r, i) ==
    \E k \in 1..Len(problems) :
        /\ Live(problems[k])
        /\ problems[k].origin.rule = r
        /\ problems[k].origin.index = i

\* the range of the match of a pattern at offset i
OccurrenceRange(pattern, i) ==
    MatchRange(documentContents, [index |-> i, length |-> Len(pattern.pattern)])

\* rule number r is scanned, with a single pattern that is well formed
ScansOnePattern(r) ==
    /\ ShouldAnalyze(rulesLoaded, analysisRules, settings, documentURI)
    /\ RuleApplies(analysisRules[r], settings, langID, documentURI)
    /\ Len(analysisRules[r].patterns) = 1
    /\ MatchPattern(analysisRules[r].patterns[1]).ok

-----------------------------------------------------------------------------
(* The region a condition is searched in *)

IsFindingRegion(condition) ==
    condition.search_in.defined /\ condition.search_in.text = "finding-region"

IsFindingOnly(condition) ==
    condition.search_in.defined /\ condition.search_in.text = "finding-only"

\* finding-region(a,b): from the start of line start.line + a to the start
\* of line end.line + b + 1
FindingRegion(findingRange, a, b) ==
    [startPos |-> GetDocumentPosition(documentContents, findingRange.start.line + a),
     endPos   |-> GetDocumentPosition(documentContents, findingRange.end.line + b + 1)]

\* finding-only: the characters of the finding
FindingOnly(findingRange) ==
    [startPos |-> GetDocumentPosition(documentContents, findingRange.start.line)
                    + findingRange.start.character,
     endPos   |-> GetDocumentPosition(documentContents, findingRange.end.line)
                    + findingRange.end.character]

\* C3: a condition with search_in "finding-region(a,b)" is searched from the
\* start of line start.line + a to the start of line end.line + b + 1, the
\* numbers added; so a rule with such a condition, negated, gives no problem
\* for a finding with a match of the condition in these lines, and a problem
\* for a finding without one.
C3_FindingRegion ==
    /\ pc = "match" =>
          \A k \in 1..Len(ConditionsOf(analysisRules[ruleIndex])) :
              LET condition == ConditionsOf(analysisRules[ruleIndex])[k]
                  range == MatchRange(documentContents, match)
              IN  IsFindingRegion(condition) =>
                      SearchRegion(documentContents, range, condition.search_in)
                          = FindingRegion(range, condition.search_in.a,
                                          condition.search_in.b)
    /\ \A r \in 1..Len(analysisRules) :
          LET conditions == ConditionsOf(analysisRules[r])
              pattern == analysisRules[r].patterns[1]
              Region(i) == FindingRegion(OccurrenceRange(pattern, i),
                                         conditions[1].search_in.a,
                                         conditions[1].search_in.b)
              Found(i) == ConditionMatchIn(conditions[1], Region(i).startPos,
                                           Region(i).endPos)
          IN  (/\ ScansOnePattern(r)
               /\ Len(conditions) = 1
               /\ IsFindingRegion(conditions[1])
               /\ conditions[1].negateFinding = "true")
              => \A i \in Occurrences(documentContents, pattern) :
                     /\ Emitted(r, i) => ~Found(i)
                     /\ pc = "done" /\ ~Found(i) => Emitted(r, i)

\* C4: a condition with search_in "finding-only" is searched in the
\* characters of the finding and nowhere else: not negated, it is met only
\* by a match in them; negated, it fails only by a match in them.
C4_FindingOnly ==
    /\ pc = "match" =>
          \A k \in 1..Len(ConditionsOf(analysisRules[ruleIndex])) :
              LET condition == ConditionsOf(analysisRules[ruleIndex])[k]
                  range == MatchRange(documentContents, match)
              IN  IsFindingOnly(condition) =>
                      SearchRegion(documentContents, range, condition.search_in)
                          = FindingOnly(range)
    /\ \A r \in 1..Len(analysisRules) :
          LET conditions == ConditionsOf(analysisRules[r])
              pattern == analysisRules[r].patterns[1]
              Region(i) == FindingOnly(OccurrenceRange(pattern, i))
              Found(i) == ConditionMatchIn(conditions[1], Region(i).startPos,
                                           Region(i).endPos)
          IN  (/\ ScansOnePattern(r)
               /\ Len(conditions) = 1
               /\ IsFindingOnly(conditions[1]))
              => \A i \in Occurrences(documentContents, pattern) :
                     IF conditions[1].negateFinding = "true"
                     THEN pc = "done" /\ ~Found(i) => Emitted(r, i)
                     ELSE Emitted(r, i) => Found(i)

-----------------------------------------------------------------------------
(* Fixes and malformed rules *)

\* the fixes of a problem that MakeFixes made, before those of createActions
RuleFixes(p) ==
    SubSeq(p.fixes, 1,
           Len(p.fixes) - Len(CreateActions(p.ruleId, p.range.start.line)))

\* the place among the fix templates of the template a fix was made of
FixItIndex(fixIts, fix) ==
    CHOOSE i \in 1..Len(fixIts) : fix.fixName = <<"DevSkim: ", fixIts[i].name>>

\* C5: the fixes of a live problem that come from its rule stand in the
\* order in which the rule lists their templates.
C5_FixOrdering ==
    \A n \in 1..Len(problems) :
        LET p == problems[n]
            fixIts == RuleOf(p).fixIts
            fixes == RuleFixes(p)
        IN  Live(p) =>
                \A j, k \in 1..Len(fixes) :
                    j < k => FixItIndex(fixIts, fixes[j]) < FixItIndex(fixIts, fixes[k])

\* C6: analyzeText never throws, and when it has returned, every match of a
\* well-formed pattern that nothing filters has its problem.
C6_NeverThrows ==
    /\ pc # "thrown"
    /\ pc = "done" /\ ~directive.present =>
          \A r \in 1..Len(analysisRules) :
              LET pattern == analysisRules[r].patterns[1]
              IN  (/\ ScansOnePattern(r)
                   /\ ConditionsOf(analysisRules[r]) = <<>>
                   /\ pattern.scopes = AllScope
                   /\ Len(pattern.pattern) = 1)
                  => \A i \in Occurrences(documentContents, pattern) : Emitted(r, i)

-----------------------------------------------------------------------------
(* Ranges *)

\* C7: the range of every live problem starts no later than it ends, and
\* both ends are positions of the document.  (The range of a marker is at
\* the column the suppression detector reports, which the model takes as
\* given.)
C7_RangeValidity ==
    \A k \in 1..Len(problems) :
        LET p == problems[k]
        IN  Live(p) =>
                /\ PositionLeq(p.range.start, p.range.end)
                /\ PositionExists(documentContents, p.range.start)
                /\ PositionExists(documentContents, p.range.end)

-----------------------------------------------------------------------------
(* The calls analyzeText does not analyse *)

\* no rules are loaded, or none are there, or the document is of the ignore
\* list
ShortCircuit ==
    \/ ~rulesLoaded
    \/ Len(analysisRules) = 0
    \/ IgnoreFile(documentURI, settings.ignoreFilesList)

\* C14: a call with no rules loaded, with an empty rule set or for a
\* document of the ignore list runs no rule and returns the empty list; any
\* other call returns what processOverrides makes of the problems runAnalysis
\* returned after it went through every rule.
C14_IgnoreShortCircuit ==
    IF ShortCircuit
    THEN /\ pc \in {"idle", "done"}
         /\ ruleIndex = 0
         /\ problems = <<>>
         /\ result = <<>>
    ELSE /\ pc # "idle" => ruleIndex >= 1
         /\ pc \in {"overrides", "done"} => ruleIndex = Len(analysisRules) + 1
         /\ pc = "done" => result = ProcessOverrides(problems)

\* a call for a document of the ignore list that a loaded rule matches has
\* returned
C14_Witness ==
    /\ pc = "done"
    /\ rulesLoaded
    /\ IgnoreFile(documentURI, settings.ignoreFilesList)
    /\ \E r \in 1..Len(analysisRules) :
          /\ RuleApplies(analysisRules[r], settings, langID, documentURI)
          /\ Occurrences(documentContents, analysisRules[r].patterns[1]) # {}
    /\ result = <<>>

-----------------------------------------------------------------------------
(* What a call leaves behind *)

\* C15: a call of analyzeText that follows another on the same worker, with
\* the same arguments, returns the list the first call returned: the same
\* problems in the same order, each with the same range, severity, overrides
\* and fixes.
C15_Determinism ==
    pc = "done" /\ calls >= 1 => result = firstResult

\* the second call has returned problems, for rules with conditions whose
\* negateFinding the first call has set
C15_Witness ==
    /\ pc = "done"
    /\ calls = 1
    /\ result # <<>>
    /\ \E r \in 1..Len(analysisRules) :
          /\ Len(analysisRules[r].conditions) > 0
          /\ analysisRules[r].conditions[1].negateFinding = "false"

\* C16: no step of analyzeText changes the rule set, a field of a rule or
\* of a condition, the settings, or codeActions.
C16_Purity ==
    [][/\ analysisRules' = analysisRules
       /\ settings' = settings
       /\ codeActions' = codeActions]_vars

-----------------------------------------------------------------------------
(* The recorded fixes *)

\* the ordinals in use under a URI for a range and a diagnostic code
Ordinals(actions, uri, range, diagnosticCode) ==
    {n \in 0..MaxRecords :
        (ComputeKey(range, diagnosticCode) \o ToString10(n)) \in DOMAIN actions[uri]}

\* under every URI, every key is the key of a range and a code followed by an
\* ordinal; the ordinals of one range and code are 0..k-1, given in the order
\* of the calls
WellNumbered(actions) ==
    \A uri \in DOMAIN actions :
        /\ \A key \in DOMAIN actions[uri] :
              \E range \in RecordRanges, code \in RecordCodes, n \in 0..MaxRecords :
                  key = ComputeKey(range, code) \o ToString10(n)
        /\ \A range \in RecordRanges, code \in RecordCodes :
              LET used == Ordinals(actions, uri, range, code)
                  At(n) == actions[uri][ComputeKey(range, code) \o ToString10(n)]
              IN  /\ used = 0..(Cardinality(used) - 1)
                  /\ \A m, n \in used :
                        m < n => At(m).documentVersion < At(n).documentVersion

\* C17: a call of recordCodeAction leaves every entry there is as it is,
\* under every URI, adds at most one entry, and leaves the ordinals of every
\* range and diagnostic code of a URI as 0..k-1 in the order of the calls.
C17_RecordAppendOnly ==
    [][/\ \A uri \in DOMAIN codeActions :
             /\ uri \in DOMAIN codeActions'
             /\ \A key \in DOMAIN codeActions[uri] :
                   /\ key \in DOMAIN codeActions'[uri]
                   /\ codeActions'[uri][key] = codeActions[uri][key]
       /\ Entries(codeActions') <= Entries(codeActions) + 1
       /\ WellNumbered(codeActions')]_vars

\* two fixes are recorded for one range and code of a document, and one for
\* another document
C17_Witness ==
    /\ Cardinality(DOMAIN codeActions) = 2
    /\ \E uri \in DOMAIN codeActions, range \in RecordRanges, code \in RecordCodes :
          Ordinals(codeActions, uri, range, code) = {0, 1}

-----------------------------------------------------------------------------
(* Suppression *)

\* the range runAnalysis computes for the match a problem was made for
OriginRange(p) ==
    MatchRange(documentContents, [index |-> p.origin.index, length |-> p.origin.length])

\* C12: a problem of runAnalysis with suppressedFindingRange set has severity
\* WarningInfo, no fixes, and for suppressedFindingRange the range of the
\* match it was made for; a problem without has the severity its rule maps
\* to, which is not WarningInfo.
C12_MarkerInvariant ==
    \A k \in 1..Len(problems) :
        LET p == problems[k]
        IN  IF p.suppressedFindingRange # NoRange
            THEN /\ p.severity = "WarningInfo"
                 /\ p.fixes = <<>>
                 /\ p.suppressedFindingRange = OriginRange(p)
            ELSE /\ p.severity = MapRuleSeverity(RuleOf(p).severity)
                 /\ p.severity # "WarningInfo"

\* runAnalysis has returned a marker and a live problem
C12_Witness ==
    /\ pc = "overrides"
    /\ \E k \in 1..Len(problems) : ~Live(problems[k])
    /\ \E k \in 1..Len(problems) : Live(problems[k])

\* the suppression detector reports the match of rule number r at offset i
\* as suppressed
Suppressed(r, i) ==
    IsFindingCommented(directive, i, documentContents, analysisRules[r].id,
                       MapRuleSeverity(analysisRules[r].severity)).showFinding

\* the live problems among those an iteration pushes
LivePushed(body) == {p \in Elements(body.pushed) : Live(p)}

\* C13: no live problem of runAnalysis is for a match the suppression
\* detector reports as suppressed; and the live problems an iteration pushes
\* with the answers of the detector are among those it pushes when the
\* detector reports nothing as suppressed.
C13_SuppressedNotLive ==
    /\ \A k \in 1..Len(problems) :
          Live(problems[k]) =>
              ~Suppressed(problems[k].origin.rule, problems[k].origin.index)
    /\ pc = "match" =>
          LET rule == analysisRules[ruleIndex]
              with == MatchBody(rule, ruleIndex, patternIndex, match,
                                documentContents, langID, directive)
              without == MatchBody(rule, ruleIndex, patternIndex, match,
                                   documentContents, langID, NoDirective)
          IN  LivePushed(with) \subseteq LivePushed(without)

\* runAnalysis has returned, and a match that would have had a live problem
\* is suppressed and has none
C13_Witness ==
    /\ pc = "overrides"
    /\ \E r \in 1..Len(analysisRules) :
          /\ ScansOnePattern(r)
          /\ ConditionsOf(analysisRules[r]) = <<>>
          /\ analysisRules[r].patterns[1].scopes = AllScope
          /\ \E i \in Occurrences(documentContents, analysisRules[r].patterns[1]) :
                Suppressed(r, i) /\ ~Emitted(r, i)

-----------------------------------------------------------------------------
(* Lines and columns of a range *)

\* the text of the match a problem was made for
MatchText(p) == Substr(documentContents, p.origin.index, p.origin.length)

Has(s, c) == \E k \in 1..Len(s) : s[k] = c

\* C18: the range of a live problem whose match holds a newline ends at its
\* start line plus the number of newlines of the match, at the character
\* that is the length of the match, less the offset in the match of its
\* last newline, less one.  (Stated for the matches whose line breaks are all
\* "\n".)
C18_MultiLineEnd ==
    \A k \in 1..Len(problems) :
        LET p == problems[k]
            text == MatchText(p)
            newlines == {i \in 1..Len(text) : text[i] = NL}
        IN  (Live(p) /\ newlines # {} /\ ~Has(text, CR)) =>
                /\ p.range.end.line = p.range.start.line + Cardinality(newlines)
                /\ p.range.end.character = Len(text) - (SetMax(newlines) - 1) - 1

\* the line an offset is on: the number of line starts up to it, less one
LineOf(s, offset) == Cardinality({y \in LineStarts(s) : y <= offset}) - 1

\* C19: the range of a live problem starts at the line that has as many line
\* breaks before the match as its number, whatever their form, at the
\* character that is the offset of the match less the offset at which that
\* line starts; a match without a line break ends on the same line, its
\* length further.  (Stated for the matches that do not begin between the
\* "\r" and the "\n" of one line break.)
C19_RangeStart ==
    \A k \in 1..Len(problems) :
        LET p == problems[k]
            text == MatchText(p)
            index == p.origin.index
            line == LineOf(documentContents, index)
            character == index - LineStartOf(documentContents, line)
        IN  (Live(p) /\ index \in {0} \cup LineStarts(documentContents)
                                  \cup {i \in 1..Len(documentContents) :
                                           documentContents[i] # CR}) =>
                /\ p.range.start = [line |-> line, character |-> character]
                /\ ~Has(text, NL) /\ ~Has(text, CR) =>
                      p.range.end = [line |-> line, character |-> character + Len(text)]

\* C20: a condition with search_in unset is searched in the lines of the
\* finding alone, from the start of its first line up to, and without, the
\* start of the line after its last: not negated, it is met only by an
\* in-scope match that begins there; negated, it fails only by one.
\* (Stated for the conditions whose pattern is not empty.)
C20_DefaultSearchRegion ==
    \A r \in 1..Len(analysisRules) :
        LET conditions == ConditionsOf(analysisRules[r])
            pattern == analysisRules[r].patterns[1]
            From(i) == GetDocumentPosition(documentContents,
                                           OccurrenceRange(pattern, i).start.line)
            To(i) == GetDocumentPosition(documentContents,
                                         OccurrenceRange(pattern, i).end.line + 1)
            Found(i) == ConditionMatchIn(conditions[1], From(i), To(i))
        IN  (/\ ScansOnePattern(r)
             /\ Len(conditions) = 1
             /\ conditions[1].pattern.pattern # <<>>
             /\ ~conditions[1].search_in.defined)
            => \A i \in Occurrences(documentContents, pattern) :
                   IF conditions[1].negateFinding = "true"
                   THEN (pc = "done" /\ ~Found(i)) => Emitted(r, i)
                   ELSE Emitted(r, i) => Found(i)

-----------------------------------------------------------------------------
(* Scopes *)

\* C8: a pattern with an empty scopes list is in scope wherever it matches,
\* so every match of such a pattern that nothing else filters has its
\* problem.
C8_EmptyScopesAll ==
    /\ pc = "match" /\ analysisRules[ruleIndex].patterns[patternIndex].scopes = <<>> =>
          MatchIsInScope(langID, Substr(documentContents, 0, match.index),
                         NewlineIndex(documentContents, match.index), <<>>)
    /\ pc = "done" /\ ~directive.present =>
          \A r \in 1..Len(analysisRules) :
              LET pattern == analysisRules[r].patterns[1]
              IN  (/\ ScansOnePattern(r)
                   /\ ConditionsOf(analysisRules[r]) = <<>>
                   /\ analysisRules[r].fixIts = <<>>
                   /\ pattern.scopes = <<>>
                   /\ Len(pattern.pattern) = 1)
                  => \A i \in Occurrences(documentContents, pattern) : Emitted(r, i)

\* the comment oracle at offset i: IsFindingInComment on the document up to
\* i and the index of the last newline in it
InComment(i) ==
    LET prefix == Substr(documentContents, 0, i)
    IN  IsFindingInComment(langID, prefix, LastIndexOf(prefix, <<NL>>), FALSE)

\* C9: no live problem of a pattern with scopes {code} is at an offset the
\* comment oracle places in a comment, and none of a pattern with scopes
\* {comment} at an offset it places outside.
C9_ScopeSoundness ==
    \A k \in 1..Len(problems) :
        LET p == problems[k]
            scopes == Elements(PatternOf(p).scopes)
        IN  Live(p) =>
                /\ scopes = {"code"} => ~InComment(p.origin.index)
                /\ scopes = {"comment"} => InComment(p.origin.index)

\* a document with a match in a comment and a match outside, scanned by a
\* pattern with scopes {comment}: the one has its problem, the other none
C9_Witness ==
    /\ pc = "done"
    /\ \E k \in 1..Len(result) :
          /\ Live(result[k])
          /\ Elements(PatternOf(result[k]).scopes) = {"comment"}
          /\ InComment(result[k].origin.index)
          /\ \E i \in Occurrences(documentContents, PatternOf(result[k])) :
                ~InComment(i) /\ ~Emitted(result[k].origin.rule, i)

-----------------------------------------------------------------------------
(* All the conditions of a rule *)

\* the region in which condition number k of rule number r is searched for
\* the match of the rule at offset i
RegionOf(r, k, i) ==
    SearchRegion(documentContents,
                 OccurrenceRange(analysisRules[r].patterns[1], i),
                 ConditionsOf(analysisRules[r])[k].search_in)

\* condition number k of rule number r succeeds for the match at offset i:
\* not negated, some match of its pattern in the region is in its scopes;
\* negated, none is
Succeeds(r, k, i) ==
    LET condition == ConditionsOf(analysisRules[r])[k]
        found == ConditionMatchIn(condition, RegionOf(r, k, i).startPos,
                                  RegionOf(r, k, i).endPos)
    IN  IF condition.negateFinding = "true" THEN ~found ELSE found

WellFormed(condition) ==
    MatchPattern(condition.pattern).ok /\ condition.pattern.pattern # <<>>

\* no match of the pattern of the condition begins at the very end of the
\* region
NothingAtEnd(r, k, i) ==
    ~MatchAt(documentContents, MatchPattern(ConditionsOf(analysisRules[r])[k].pattern),
             RegionOf(r, k, i).endPos)

\* C21: a match of a rule is reported if and only if every condition of the
\* rule succeeds; no conditions, or none defined, and it is reported.  The
\* conditions are taken in their order and none is looked at behind the
\* first that fails: a malformed condition throws only when every condition
\* before it has succeeded for some match.  (Stated for the rules with one
\* pattern of one character and no fix, and the conditions with a pattern
\* that is not empty and no match of it at the very end of the region.)
C21_AllConditions ==
    \A r \in 1..Len(analysisRules) :
        LET conditions == ConditionsOf(analysisRules[r])
            pattern == analysisRules[r].patterns[1]
            K == 1..Len(conditions)
        IN  (/\ ScansOnePattern(r)
             /\ Len(analysisRules) = 1
             /\ analysisRules[r].fixIts = <<>>
             /\ ~directive.present
             /\ \E s \in 1..Len(pattern.scopes) : pattern.scopes[s] = "all"
             /\ Len(pattern.pattern) = 1
             /\ \A k \in K : conditions[k].pattern.pattern # <<>>
             /\ \A k \in K : \A i \in Occurrences(documentContents, pattern) :
                    NothingAtEnd(r, k, i))
            => /\ (\A k \in K : WellFormed(conditions[k])) =>
                    \A i \in Occurrences(documentContents, pattern) :
                        /\ Emitted(r, i) => \A k \in K : Succeeds(r, k, i)
                        /\ (pc = "done" /\ \A k \in K : Succeeds(r, k, i))
                              => Emitted(r, i)
               /\ pc = "thrown" =>
                    \E i \in Occurrences(documentContents, pattern) : \E k \in K :
                        /\ ~WellFormed(conditions[k])
                        /\ \A j \in 1..(k - 1) : Succeeds(r, j, i)
               /\ pc = "done" =>
                    \A i \in Occurrences(documentContents, pattern) : \A k \in K :
                        ~WellFormed(conditions[k]) =>
                            \E j \in 1..(k - 1) : ~Succeeds(r, j, i)

\* a match reported by a rule with two conditions, the second of which is
\* met by a match in a comment that lies behind a match outside
C21_Witness ==
    /\ pc = "done"
    /\ Len(analysisRules) = 1
    /\ Len(ConditionsOf(analysisRules[1])) = 2
    /\ LET condition == ConditionsOf(analysisRules[1])[2]
       IN  /\ condition.pattern.scopes = <<"comment">>
           /\ condition.negateFinding = "false"
           /\ \E i \in Occurrences(documentContents, analysisRules[1].patterns[1]) :
                 /\ Emitted(1, i)
                 /\ \E x, y \in Occurrences(documentContents, condition.pattern) :
                       /\ x < y
                       /\ ~InComment(x)
                       /\ InComment(y)

-----------------------------------------------------------------------------
(* Severities *)

\* the spellings of the severities that no setting turns off
AlwaysEnabledNames ==
    {"critical", "Critical", "CRITICAL", "important", "Important", "moderate",
     "Moderate"}

ManualReviewNames == {"manual-review", "Manual-Review"}

\* the rule is turned off by the settings: a manual-review rule without
\* enableManualReviewRules, a best-practice rule or one of an unknown
\* severity without enableBestPracticeRules
GatedOff(rule) ==
    IF rule.severity \in AlwaysEnabledNames THEN FALSE
    ELSE IF rule.severity \in ManualReviewNames THEN ~settings.enableManualReviewRules
    ELSE ~settings.enableBestPracticeRules

\* C22: no problem, live or marker, is for a rule the settings turn off,
\* whatever the spelling of its severity, an unknown severity counting as
\* best-practice; and a critical, important or moderate rule is scanned
\* under every setting of the two flags: each of its matches that is not
\* suppressed has its live problem.
C22_SeverityGating ==
    /\ \A k \in 1..Len(problems) : ~GatedOff(RuleOf(problems[k]))
    /\ \A r \in 1..Len(analysisRules) :
          LET rule == analysisRules[r]
          IN  (/\ pc = "done"
               /\ ScansOnePattern(r)
               /\ Len(rule.patterns[1].pattern) = 1
               /\ rule.patterns[1].scopes = <<"all">>
               /\ ConditionsOf(rule) = <<>>
               /\ rule.severity \in AlwaysEnabledNames)
              => \A i \in Occurrences(documentContents, rule.patterns[1]) :
                     \/ Emitted(r, i)
                     \/ Suppressed(r, i)

\* a document with a match on the line of a suppression directive, scanned
\* with a best-practice rule in capitals while enableBestPracticeRules is off
\* and the other flag on: no problem
C22_Witness ==
    /\ pc = "done"
    /\ directive.present
    /\ Len(analysisRules) = 1
    /\ analysisRules[1].severity = "Best-Practice"
    /\ ~settings.enableBestPracticeRules
    /\ settings.enableManualReviewRules
    /\ Occurrences(documentContents, analysisRules[1].patterns[1]) # {}
    /\ ShouldAnalyze(rulesLoaded, analysisRules, settings, documentURI)
    /\ problems = <<>>

-----------------------------------------------------------------------------
(* The rules that apply *)

\* the id of the rule is in settings.ignoreRulesList
Ignored(rule) ==
    \E k \in 1..Len(settings.ignoreRulesList) : settings.ignoreRulesList[k] = rule.id

\* an entry of appliesTo that names the language, whatever the case
NamesLanguage(entry) == ToLowerCase(entry) = ToLowerCase(LangChars(langID))

\* t occurs in s
IsSubstring(t, s) == \E i \in 0..(Len(s) - Len(t)) : StartsAt(s, t, i)

\* every unsuppressed match of a rule that is neither ignored nor limited by
\* appliesTo has its live problem
UnlimitedRulesReport ==
    \A r \in 1..Len(analysisRules) :
        LET rule == analysisRules[r]
        IN  (/\ pc = "done"
             /\ ShouldAnalyze(rulesLoaded, analysisRules, settings, documentURI)
             /\ ~Ignored(rule)
             /\ rule.appliesTo = <<>>
             /\ RuleSeverityEnabled(MapRuleSeverity(rule.severity), settings)
             /\ Len(rule.patterns) = 1
             /\ MatchPattern(rule.patterns[1]).ok
             /\ Len(rule.patterns[1].pattern) = 1
             /\ rule.patterns[1].scopes = <<"all">>
             /\ ConditionsOf(rule) = <<>>)
            => \A i \in Occurrences(documentContents, rule.patterns[1]) :
                   Emitted(r, i) \/ Suppressed(r, i)

-----------------------------------------------------------------------------
(* The comment oracle *)

\* the offsets of s at which t begins
Starts(s, t) == {i \in 0..(Len(s) - Len(t)) : StartsAt(s, t, i)}

\* the answer expected of IsFindingInComment for a call
InCommentExpected(call) ==
    LET text == call.documentContents
        line == GetLineComment(call.langID)
        open == GetBlockCommentStart(call.langID)
        close == GetBlockCommentEnd(call.langID)
        inLine == /\ ~call.onlyBlock
                  /\ line # <<>>
                  /\ \E i \in Starts(text, line) : i >= call.newlineIndex
        inBlock == /\ open # <<>>
                   /\ close # <<>>
                   /\ Starts(text, open) # {}
                   /\ \A j \in Starts(text, close) : j < SetMax(Starts(text, open))
    IN  inLine \/ inBlock

\* C24: IsFindingInComment answers true exactly when the line comment
\* delimiter of the language occurs in the text from newlineIndex on and
\* onlyBlock is not set, or the last block opener of the language in the text
\* lies behind its last block closer; it answers false for an empty text and
\* for a language without delimiters, for which no match is in the scope
\* "comment" and every match is in the scope "code".
C24_CommentOracle ==
    commentCall.asked =>
        /\ commentCall.answer = InCommentExpected(commentCall)
        /\ commentCall.documentContents = <<>> => ~commentCall.answer
        /\ commentCall.langID \in {"plaintext", "cobol"} =>
              /\ ~commentCall.answer
              /\ ~MatchIsInScope(commentCall.langID, commentCall.documentContents,
                                 commentCall.newlineIndex, <<"comment">>)
              /\ MatchIsInScope(commentCall.langID, commentCall.documentContents,
                                commentCall.newlineIndex, <<"code">>)

\* a call for a text of c with a line comment on an earlier line, and an
\* opened and closed block comment: the answer is false
C24_Witness ==
    /\ commentCall.asked
    /\ commentCall.langID = "c"
    /\ ~commentCall.onlyBlock
    /\ commentCall.newlineIndex > 0
    /\ commentCall.documentContents[commentCall.newlineIndex + 1] = NL
    /\ Starts(commentCall.documentContents, <<"/", "/">>) # {}
    /\ ~commentCall.answer

-----------------------------------------------------------------------------
(* Reloads *)

\* analyzeText is between its test and its return
Scanning == pc \in {"rule", "pattern", "match", "overrides", "hung"}

\* the problem is for a match of a rule of the rule set the call began with
OfSnapshot(p) ==
    /\ p.origin.rule \in 1..Len(ruleSnapshot)
    /\ LET rule == ruleSnapshot[p.origin.rule]
       IN  /\ p.ruleId = rule.id
           /\ p.origin.pattern \in 1..Len(rule.patterns)
           /\ MatchAt(documentContents, MatchPattern(rule.patterns[p.origin.pattern]),
                      p.origin.index)

\* C25: with rules reloaded at any time, each analyzeText call works on one
\* rule set: from its test to its return this.analysisRules is the array
\* its loop began with, and every problem it collects and returns is for a
\* match of a rule of that array.
C25_ReloadAtomicity ==
    /\ Scanning => analysisRules = ruleSnapshot
    /\ Scanning \/ pc = "done" =>
          /\ \A k \in 1..Len(problems) : OfSnapshot(problems[k])
          /\ \A k \in 1..Len(result) : OfSnapshot(result[k])

\* the second call of a worker has returned problems, and not those of the
\* first: a reload has completed between the two, and another is in flight
C25_Witness ==
    /\ pc = "done"
    /\ calls = 1
    /\ loading > 0
    /\ result # <<>>
    /\ firstResult # <<>>
    /\ result # firstResult

====
